---- MODULE Spec2Model ----
(***************************************************************************)
(* Pool-based active learning with a dropout-based Bayesian network        *)
(* (dbal_keras notebook): the choice of the initial labelled set, the      *)
(* unlabelled pool, the query strategies and active_learning_procedure.    *)
(*                                                                         *)
(* Conventions.                                                            *)
(*  - A row of X_train (an image) is held as the number of the training    *)
(*    example it shows; a row of y_train is held as [src, cls]: the        *)
(*    example it labels and the digit class its one-hot vector encodes.    *)
(*  - Arrays are sequences, so positions are 1-based here where numpy's    *)
(*    are 0-based; classes keep the source's numbering 0 .. NumClasses-1.  *)
(*  - A softmax output is a vector of probabilities k / Grid, held by its  *)
(*    numerators k.  Logarithms are fixed-point, in units of 1e-6 nat.     *)
(*  - The network and modAL's ActiveLearner are libraries: a forward pass  *)
(*    with dropout returns any softmax output, and the accuracy of an      *)
(*    estimator is identified by the number of fits that produced it.      *)
(***************************************************************************)
EXTENDS Integers, Sequences, FiniteSets, TLC

\* ------------------------------------------------------------------ bounds
\* Digit classes (10 in MNIST).
NumClasses == 2
\* Examples drawn per class for the initial labelled set.
PerClass == 2
\* Size of the random subset a strategy scores (2000 in the notebook).
SubsetSize == 2
\* Pool rows beyond the random subset (57980 in the notebook).
PoolSlack == 1
\* Monte Carlo forward passes per query (T, 100 by default).
T == 2
\* Softmax outputs are multiples of 1 / Grid.
Grid == 2
\* Largest n_queries tried.
MaxQueries == 2

NumTrain == NumClasses * PerClass + SubsetSize + PoolSlack
Classes == 0 .. (NumClasses - 1)

VARIABLES
    pc,             \* position in the notebook / in active_learning_procedure
    i,              \* loop variable of the initial-labelled-data cell
    initial_idx,    \* indices drawn so far
    X_initial, y_initial,
    X_pool, y_pool,
    strategy, n_queries, n_instances,
    learner,        \* the ActiveLearner: training data and estimator version
    perf_hist,
    index,          \* loop variable of active_learning_procedure
    query_idx,      \* what the last query returned
    random_subset,  \* locals of the last strategy call
    acquisition,
    pool_acquisition,   \* the score the strategy's formula gives each row of X
    MC_samples,     \* the tensor an acquisition formula is evaluated on
    exception       \* the exception that ended the run, or "none"

vars == <<pc, i, initial_idx, X_initial, y_initial, X_pool, y_pool, strategy,
          n_queries, n_instances, learner, perf_hist, index, query_idx,
          random_subset, acquisition, pool_acquisition, MC_samples, exception>>

\* ------------------------------------------------------------------ helpers
Min(a, b) == IF a < b THEN a ELSE b

RECURSIVE GCD(_, _)
GCD(a, b) == IF b = 0 THEN a ELSE GCD(b, a % b)

RECURSIVE SumSeq(_)
SumSeq(s) == IF s = <<>> THEN 0 ELSE Head(s) + SumSeq(Tail(s))

RECURSIVE SumOver(_, _)
SumOver(f, S) ==
    IF S = {} THEN 0
    ELSE LET x == CHOOSE y \in S : TRUE IN f[x] + SumOver(f, S \ {x})

Range(s) == {s[k] : k \in 1 .. Len(s)}
IsInjective(s) == \A a, b \in 1 .. Len(s) : a # b => s[a] # s[b]

\* ------------------------------------------------------------------ numpy
\* arr[idx] with an index array: the rows at the positions idx, in idx's order.
Take(arr, idx) == [k \in 1 .. Len(idx) |-> arr[idx[k]]]

\* seq[:n]
Prefix(s, n) == SubSeq(s, 1, Min(n, Len(s)))

\* np.delete(arr, idx, axis=0): arr without the rows at the positions in idx.
RECURSIVE np_delete_from(_, _, _)
np_delete_from(arr, gone, k) ==
    IF k > Len(arr) THEN <<>>
    ELSE (IF k \in gone THEN <<>> ELSE <<arr[k]>>) \o np_delete_from(arr, gone, k + 1)

\* np.delete given only the first of the positions.
np_delete_first(arr, idx) ==
    IF idx = <<>> THEN arr ELSE np_delete_from(arr, {idx[1]}, 1)

np_delete(arr, idx) == np_delete_from(arr, Range(idx), 1)

\* np.random.choice with replace=True: a row may be drawn more than once.
np_random_choice_replace(population, size) ==
    {Take(population, s) : s \in [1 .. size -> 1 .. Len(population)]}

\* np.random.choice(population, size, replace=False): every ordering of every
\* size-element selection of the population (a sequence).
np_random_choice(population, size) ==
    {Take(population, s) : s \in {f \in [1 .. size -> 1 .. Len(population)] : IsInjective(f)}}

\* range(n) / arange(n), as positions.
Positions(n) == [k \in 1 .. n |-> k]

\* a.argsort(): the orders that sort a ascending.  numpy's default sort is not
\* stable, so equal keys may come out in either order.
argsort(a) ==
    {p \in [1 .. Len(a) -> 1 .. Len(a)] :
        /\ IsInjective(p)
        /\ \A k \in 1 .. (Len(a) - 1) : a[p[k]] <= a[p[k + 1]]}

Negate(a) == [k \in 1 .. Len(a) |-> 0 - a[k]]

\* ------------------------------------------------------------------ data set
\* mnist.load_data() and to_categorical: example e shows digit (e - 1) % NumClasses.
X_train == [e \in 1 .. NumTrain |-> e]
y_train == [e \in 1 .. NumTrain |-> [src |-> e, cls |-> (e - 1) % NumClasses]]

\* np.where(y_train[:, c] == 1)[0], ascending.
RECURSIVE where_class_from(_, _)
where_class_from(c, e) ==
    IF e > NumTrain THEN <<>>
    ELSE (IF y_train[e].cls = c THEN <<e>> ELSE <<>>) \o where_class_from(c, e + 1)

where_class(c) == where_class_from(c, 1)

\* ------------------------------------------------------------------ acquisition
\* Softmax outputs on the grid: numerators over Grid, one per class, summing to Grid.
Dists == {d \in [Classes -> 0 .. Grid] : SumOver(d, Classes) = Grid}

\* ln(k) for k = 1 .. 16, in units of 1e-6.
LnMicro == <<0, 693147, 1098612, 1386294, 1609438, 1791759, 1945910, 2079442,
             2197225, 2302585, 2397895, 2484907, 2564949, 2639057, 2708050, 2772589>>

\* ln(1e-10), in units of 1e-6.
LogEps == 0 - 23025851

\* np.log(n / d + 1e-10) in units of 1e-6: the offset only matters at n = 0,
\* where it keeps the logarithm finite.
Log(n, d) ==
    IF n = 0 THEN LogEps
    ELSE LET g == GCD(n, d) IN LnMicro[n \div g] - LnMicro[d \div g]

\* - np.sum(p * np.log(p + 1e-10), axis=-1) for p = num / d, times d.
EntropyTimes(num, d) == 0 - SumOver([c \in Classes |-> num[c] * Log(num[c], d)], Classes)

\* np.mean(MC_samples, axis=0)[j], times Len(MC) (numerators over Len(MC) * Grid).
ExpectedP(MC, j) == [c \in Classes |-> SumSeq([t \in 1 .. Len(MC) |-> MC[t][j][c]])]

BatchOf(MC) == Len(MC[1])

\* max_entropy's acquisition, in units of 1e-6 / (T * Grid) nat.
max_entropy_acquisition(MC) ==
    [j \in 1 .. BatchOf(MC) |-> EntropyTimes(ExpectedP(MC, j), Len(MC) * Grid)]

\* bald's expected_entropy: the mean over the passes of each pass's entropy.
expected_entropy(MC) ==
    [j \in 1 .. BatchOf(MC) |->
        SumSeq([t \in 1 .. Len(MC) |-> EntropyTimes(MC[t][j], Grid)])]

\* bald's entropy_expected_p.
entropy_expected_p(MC) ==
    [j \in 1 .. BatchOf(MC) |-> EntropyTimes(ExpectedP(MC, j), Len(MC) * Grid)]

\* The two entropies subtracted the wrong way round.
bald_acquisition_swapped(MC) ==
    [j \in 1 .. BatchOf(MC) |-> expected_entropy(MC)[j] - entropy_expected_p(MC)[j]]

\* bald's acquisition, in units of 1e-6 / (T * Grid) nat.
bald_acquisition(MC) ==
    [j \in 1 .. BatchOf(MC) |-> entropy_expected_p(MC)[j] - expected_entropy(MC)[j]]

\* [MC_output([X[rows], True])[0] for _ in range(T)]: T stochastic passes over
\* the rows, each giving every row some softmax output.
MCTensors(batch) == [1 .. T -> [1 .. batch -> Dists]]

\* The sort taken on acquisition instead of -acquisition.
TopIdx_ascending(acq, n) == {Prefix(p, n) : p \in argsort(acq)}

\* idx = (-acquisition).argsort()[:n_instances]
TopIdx(acq, n) == {Prefix(p, n) : p \in argsort(Negate(acq))}

\* The positions inside the subset returned as if they were pool indices.
QueryIdx_unmapped(subset, idx) == idx

\* query_idx = random_subset[idx]
QueryIdx(subset, idx) == Take(subset, idx)

\* ------------------------------------------------------------------ modAL
\* ActiveLearner(estimator, X_training, y_training, ...): keeps the training
\* data and fits the estimator to it.
ActiveLearner(X, y) == [X_training |-> X, y_training |-> y, fits |-> 1]

\* A teach that keeps the new rows in place of the training data.
teach_only_new(l, X, y) == [X_training |-> X, y_training |-> y, fits |-> l.fits + 1]

\* learner.teach(X, y): adds the rows to the training data and fits again.
teach(l, X, y) ==
    [X_training |-> l.X_training \o X, y_training |-> l.y_training \o y,
     fits |-> l.fits + 1]

\* learner.score(X_test, y_test): the test accuracy of the current estimator.
score(l) == l.fits

\* ------------------------------------------------------------------ the notebook
Strategies == {"uniform", "max_entropy", "var_ratio", "bald"}

\* Before the initial-labelled-data cell runs.
InitSetup ==
    /\ pc = "initial_labelled"
    /\ i = 0
    /\ initial_idx = <<>>
    /\ X_initial = <<>>
    /\ y_initial = <<>>
    /\ X_pool = <<>>
    /\ y_pool = <<>>
    /\ strategy = "none"
    /\ n_queries = 0
    /\ n_instances = 0
    /\ learner = [X_training |-> <<>>, y_training |-> <<>>, fits |-> 0]
    /\ perf_hist = <<>>
    /\ index = 0
    /\ query_idx = <<>>
    /\ random_subset = <<>>
    /\ acquisition = <<>>
    /\ pool_acquisition = <<>>
    /\ MC_samples = <<>>
    /\ exception = "none"

\* for i in range(10): idx = np.random.choice(np.where(y_train[:,i]==1)[0], size=2,
\* replace=False); initial_idx = np.concatenate((initial_idx, idx))
DrawInitial ==
    /\ pc = "initial_labelled"
    /\ i < NumClasses
    /\ \E idx \in np_random_choice(where_class(i), PerClass) :
          initial_idx' = initial_idx \o idx
    /\ i' = i + 1
    /\ UNCHANGED <<pc, X_initial, y_initial, X_pool, y_pool, strategy, n_queries,
                   n_instances, learner, perf_hist, index, query_idx, random_subset,
                   acquisition, pool_acquisition, MC_samples, exception>>

\* X_initial = X_train[initial_idx]; y_initial = y_train[initial_idx]
SliceInitial ==
    /\ pc = "initial_labelled"
    /\ i = NumClasses
    /\ X_initial' = Take(X_train, initial_idx)
    /\ y_initial' = Take(y_train, initial_idx)
    /\ pc' = "initial_pool"
    /\ UNCHANGED <<i, initial_idx, X_pool, y_pool, strategy, n_queries, n_instances,
                   learner, perf_hist, index, query_idx, random_subset, acquisition,
                   pool_acquisition, MC_samples, exception>>

\* X_pool = np.delete(X_train, initial_idx, axis=0); y_pool likewise
InitialPool ==
    /\ pc = "initial_pool"
    /\ X_pool' = np_delete(X_train, initial_idx)
    /\ y_pool' = np_delete(y_train, initial_idx)
    /\ pc' = "call"
    /\ UNCHANGED <<i, initial_idx, X_initial, y_initial, strategy, n_queries,
                   n_instances, learner, perf_hist, index, query_idx, random_subset,
                   acquisition, pool_acquisition, MC_samples, exception>>

\* A loop that runs one round too many.
LoopAt_inclusive(k, n) == IF k <= n THEN "query" ELSE "return"

\* Where the loop of active_learning_procedure stands after k rounds.
LoopAt(k, n) == IF k < n THEN "query" ELSE "return"

\* active_learning_procedure(query_strategy, ..., n_queries, n_instances) up to
\* the loop: the learner is built on the initial data and scored once.
Call ==
    /\ pc = "call"
    /\ \E qs \in Strategies, nq \in 0 .. MaxQueries, ni \in 1 .. SubsetSize :
          /\ strategy' = qs
          /\ n_queries' = nq
          /\ n_instances' = ni
          /\ pc' = LoopAt(0, nq)
    /\ learner' = ActiveLearner(X_initial, y_initial)
    /\ perf_hist' = <<score(ActiveLearner(X_initial, y_initial))>>
    /\ index' = 0
    /\ UNCHANGED <<i, initial_idx, X_initial, y_initial, X_pool, y_pool, query_idx,
                   random_subset, acquisition, pool_acquisition, MC_samples, exception>>

Raise(name) ==
    /\ pc' = "raised"
    /\ exception' = name
    /\ UNCHANGED <<i, initial_idx, X_initial, y_initial, X_pool, y_pool, strategy,
                   n_queries, n_instances, learner, perf_hist, index, query_idx,
                   random_subset, acquisition, pool_acquisition, MC_samples>>

\* learner.query(X_pool, n_instances) with query_strategy = uniform
QueryUniform ==
    /\ pc = "query"
    /\ strategy = "uniform"
    /\ IF n_instances > Len(X_pool)
       THEN Raise("ValueError")
       ELSE /\ \E q \in np_random_choice(Positions(Len(X_pool)), n_instances) :
                  query_idx' = q
            /\ pc' = "teach"
            /\ UNCHANGED <<i, initial_idx, X_initial, y_initial, X_pool, y_pool,
                           strategy, n_queries, n_instances, learner, perf_hist, index,
                           random_subset, acquisition, pool_acquisition, MC_samples,
                           exception>>

\* The acquisition strategy qs computes from its passes.
AcquisitionOf(qs, MC) ==
    IF qs = "max_entropy" THEN max_entropy_acquisition(MC) ELSE bald_acquisition(MC)

\* The scores a formula can give one row: its values over every outcome of
\* the T passes on that row.
MaxEntropyScores == {max_entropy_acquisition(MC)[1] : MC \in MCTensors(1)}
BaldScores == {bald_acquisition(MC)[1] : MC \in MCTensors(1)}
ScoresOf(qs) == IF qs = "max_entropy" THEN MaxEntropyScores ELSE BaldScores

\* The body shared by max_entropy and bald, which differ in the acquisition only.
\* The passes are made on the rows of random_subset; pool_acquisition records,
\* beside their scores, a score the formula could give each row left out.
UncertaintyQuery(qs) ==
    IF SubsetSize > Len(X_pool)
    THEN Raise("ValueError")
    ELSE \E subset \in np_random_choice(Positions(Len(X_pool)), SubsetSize),
            MC \in MCTensors(SubsetSize) :
            LET acq == AcquisitionOf(qs, MC)
            IN  /\ random_subset' = subset
                /\ acquisition' = acq
                /\ \E others \in [(1 .. Len(X_pool)) \ Range(subset) -> ScoresOf(qs)] :
                      pool_acquisition' =
                          [r \in 1 .. Len(X_pool) |->
                              IF r \in Range(subset)
                              THEN acq[CHOOSE k \in 1 .. SubsetSize : subset[k] = r]
                              ELSE others[r]]
                /\ \E idx \in TopIdx(acq, n_instances) :
                      query_idx' = QueryIdx(subset, idx)
                /\ pc' = "teach"
                /\ UNCHANGED <<i, initial_idx, X_initial, y_initial, X_pool, y_pool,
                               strategy, n_queries, n_instances, learner, perf_hist,
                               index, MC_samples, exception>>

\* learner.query(X_pool, n_instances) with query_strategy = max_entropy
QueryMaxEntropy ==
    /\ pc = "query"
    /\ strategy = "max_entropy"
    /\ UncertaintyQuery("max_entropy")

\* learner.query(X_pool, n_instances) with query_strategy = bald
QueryBald ==
    /\ pc = "query"
    /\ strategy = "bald"
    /\ UncertaintyQuery("bald")

\* learner.query(X_pool, n_instances) with query_strategy = var_ratio: after the
\* subset is drawn and the passes are made, np.argmax(a, axis=2) names a, which
\* no cell defines (and stats is never imported).
QueryVarRatio ==
    /\ pc = "query"
    /\ strategy = "var_ratio"
    /\ IF SubsetSize > Len(X_pool)
       THEN Raise("ValueError")
       ELSE Raise("NameError")

\* learner.teach(X_pool[query_idx], y_pool[query_idx], ...).  The strategy's
\* locals, kept for inspection while its result waits, are gone by now.
Teach ==
    /\ pc = "teach"
    /\ learner' = teach(learner, Take(X_pool, query_idx), Take(y_pool, query_idx))
    /\ random_subset' = <<>>
    /\ acquisition' = <<>>
    /\ pool_acquisition' = <<>>
    /\ pc' = "delete"
    /\ UNCHANGED <<i, initial_idx, X_initial, y_initial, X_pool, y_pool, strategy,
                   n_queries, n_instances, perf_hist, index, query_idx, MC_samples,
                   exception>>

\* The labels deleted at the leading positions instead of the queried ones.
DeleteQueried_leading_labels ==
    /\ pc = "delete"
    /\ X_pool' = np_delete(X_pool, query_idx)
    /\ y_pool' = np_delete(y_pool, Positions(Len(query_idx)))
    /\ pc' = "score"
    /\ UNCHANGED <<i, initial_idx, X_initial, y_initial, strategy, n_queries,
                   n_instances, learner, perf_hist, index, query_idx, random_subset,
                   acquisition, pool_acquisition, MC_samples, exception>>

\* X_pool = np.delete(X_pool, query_idx, axis=0); y_pool likewise
DeleteQueried ==
    /\ pc = "delete"
    /\ X_pool' = np_delete(X_pool, query_idx)
    /\ y_pool' = np_delete(y_pool, query_idx)
    /\ pc' = "score"
    /\ UNCHANGED <<i, initial_idx, X_initial, y_initial, strategy, n_queries,
                   n_instances, learner, perf_hist, index, query_idx, random_subset,
                   acquisition, pool_acquisition, MC_samples, exception>>

\* model_accuracy = learner.score(X_test, y_test); perf_hist.append(model_accuracy);
\* then the next round of the loop, or out of it.
Score ==
    /\ pc = "score"
    /\ perf_hist' = Append(perf_hist, score(learner))
    /\ index' = index + 1
    /\ pc' = LoopAt(index + 1, n_queries)
    /\ UNCHANGED <<i, initial_idx, X_initial, y_initial, X_pool, y_pool, strategy,
                   n_queries, n_instances, learner, query_idx, random_subset,
                   acquisition, pool_acquisition, MC_samples, exception>>

\* return perf_hist
Return ==
    /\ pc = "return"
    /\ pc' = "done"
    /\ UNCHANGED <<i, initial_idx, X_initial, y_initial, X_pool, y_pool, strategy,
                   n_queries, n_instances, learner, perf_hist, index, query_idx,
                   random_subset, acquisition, pool_acquisition, MC_samples, exception>>

NextSetup ==
    \/ DrawInitial
    \/ SliceInitial
    \/ InitialPool

\* The two cells that choose the initial labelled data and the initial pool.
SpecSetup == InitSetup /\ [][NextSetup]_vars

\* Two of the draws the initial-labelled-data cell can make: of every class its
\* first PerClass examples in ascending order, or its last PerClass in descending.
RECURSIVE DrawLowest(_)
DrawLowest(c) ==
    IF c = NumClasses THEN <<>>
    ELSE Prefix(where_class(c), PerClass) \o DrawLowest(c + 1)

RECURSIVE DrawHighest(_)
DrawHighest(c) ==
    IF c = NumClasses THEN <<>>
    ELSE LET w == where_class(c)
         IN  [k \in 1 .. PerClass |-> w[Len(w) + 1 - k]] \o DrawHighest(c + 1)

\* The notebook calls active_learning_procedure with the arrays the two cells
\* left behind.
Init ==
    /\ pc = "call"
    /\ i = NumClasses
    /\ initial_idx \in {DrawLowest(0), DrawHighest(0)}
    /\ X_initial = Take(X_train, initial_idx)
    /\ y_initial = Take(y_train, initial_idx)
    /\ X_pool = np_delete(X_train, initial_idx)
    /\ y_pool = np_delete(y_train, initial_idx)
    /\ strategy = "none"
    /\ n_queries = 0
    /\ n_instances = 0
    /\ learner = [X_training |-> <<>>, y_training |-> <<>>, fits |-> 0]
    /\ perf_hist = <<>>
    /\ index = 0
    /\ query_idx = <<>>
    /\ random_subset = <<>>
    /\ acquisition = <<>>
    /\ pool_acquisition = <<>>
    /\ MC_samples = <<>>
    /\ exception = "none"

Next ==
    \/ Call
    \/ QueryUniform
    \/ QueryMaxEntropy
    \/ QueryBald
    \/ QueryVarRatio
    \/ Teach
    \/ DeleteQueried
    \/ Score
    \/ Return

\* active_learning_procedure, called on the notebook's arrays.
Spec == Init /\ [][Next]_vars

\* ------------------------------------------------------------------ the formulas alone
\* A strategy after its passes, T softmax outputs for each row of the subset,
\* and before it scores them.
InitAcq ==
    /\ pc = "sampled"
    /\ MC_samples \in MCTensors(SubsetSize)
    /\ i = 0
    /\ initial_idx = <<>>
    /\ X_initial = <<>>
    /\ y_initial = <<>>
    /\ X_pool = <<>>
    /\ y_pool = <<>>
    /\ strategy = "none"
    /\ n_queries = 0
    /\ n_instances = 0
    /\ learner = [X_training |-> <<>>, y_training |-> <<>>, fits |-> 0]
    /\ perf_hist = <<>>
    /\ index = 0
    /\ query_idx = <<>>
    /\ random_subset = <<>>
    /\ acquisition = <<>>
    /\ pool_acquisition = <<>>
    /\ exception = "none"

Scored(qs, acq) ==
    /\ strategy' = qs
    /\ acquisition' = acq
    /\ pc' = "scored"
    /\ UNCHANGED <<i, initial_idx, X_initial, y_initial, X_pool, y_pool, n_queries,
                   n_instances, learner, perf_hist, index, query_idx, random_subset,
                   pool_acquisition, MC_samples, exception>>

\* max_entropy: expected_p and acquisition
ScoreMaxEntropy ==
    /\ pc = "sampled"
    /\ Scored("max_entropy", max_entropy_acquisition(MC_samples))

\* bald: expected_entropy, expected_p, entropy_expected_p and acquisition
ScoreBald ==
    /\ pc = "sampled"
    /\ Scored("bald", bald_acquisition(MC_samples))

\* var_ratio: preds = np.argmax(a, axis=2) raises before anything is scored
ScoreVarRatio ==
    /\ pc = "sampled"
    /\ pc' = "raised"
    /\ strategy' = "var_ratio"
    /\ exception' = "NameError"
    /\ UNCHANGED <<i, initial_idx, X_initial, y_initial, X_pool, y_pool, n_queries,
                   n_instances, learner, perf_hist, index, query_idx, random_subset,
                   acquisition, pool_acquisition, MC_samples>>

NextAcq ==
    \/ ScoreMaxEntropy
    \/ ScoreBald
    \/ ScoreVarRatio

SpecAcq == InitAcq /\ [][NextAcq]_vars

\* ------------------------------------------------------------------ claims
Uncertainty == {"max_entropy", "bald"}
InitialSize == NumClasses * PerClass
AllExamples == 1 .. NumTrain

\* A query of an uncertainty strategy has just returned.
Queried == pc = "teach" /\ strategy \in Uncertainty

\* The acquisition score of row r of X, a row of the random subset.
ScoreOfRow(r) == acquisition[CHOOSE k \in 1 .. Len(random_subset) : random_subset[k] = r]

\* Between two rounds of the loop of active_learning_procedure.
BetweenRounds == pc \in {"query", "return", "done", "raised"}

\* The rows the last teach added to the training data.
Taught(a) == SubSeq(a, Len(a) - Len(query_idx) + 1, Len(a))

C2_State ==
    /\ pc = "call" =>
          /\ IsInjective(X_initial \o X_pool)
          /\ Range(X_initial) \cup Range(X_pool) = AllExamples
          /\ Len(X_initial) = InitialSize
    /\ BetweenRounds =>
          /\ IsInjective(learner.X_training \o X_pool)
          /\ Range(learner.X_training) \cup Range(X_pool) = AllExamples
          /\ Len(learner.X_training) = InitialSize + index * n_instances
          /\ Len(X_pool) = NumTrain - InitialSize - index * n_instances

C2_Step ==
    /\ Range(learner.X_training) \subseteq Range(learner.X_training')
    /\ Range(X_pool') \subseteq Range(X_pool)

C3_History ==
    /\ pc # "call" =>
          /\ Len(perf_hist) = index + 1
          /\ \A k \in 1 .. Len(perf_hist) : perf_hist[k] = k
    /\ pc \in {"query", "return", "done"} => learner.fits = index + 1
    /\ pc \in {"return", "done"} =>
          /\ index = n_queries
          /\ Len(perf_hist) = n_queries + 1

\* C3 witness: the procedure returned after MaxQueries rounds of max_entropy.
C3_Witness ==
    /\ pc = "done"
    /\ strategy = "max_entropy"
    /\ n_queries = MaxQueries
    /\ MaxQueries > 0
    /\ Len(perf_hist) = MaxQueries + 1

\* C4 (as stated): var_ratio, called on a pool of at least SubsetSize rows,
\* completes without raising.
C4_VarRatioCompletes ==
    (strategy = "var_ratio" /\ pc = "raised") => Len(X_pool) < SubsetSize

C6_Returned ==
    Queried =>
        /\ Len(query_idx) = n_instances
        /\ IsInjective(query_idx)
        /\ \A k \in 1 .. Len(query_idx) :
              /\ query_idx[k] \in 1 .. Len(X_pool)
              /\ query_idx[k] \in Range(random_subset)
        /\ \A k \in 1 .. (Len(query_idx) - 1) :
              ScoreOfRow(query_idx[k]) >= ScoreOfRow(query_idx[k + 1])
        /\ \A r \in Range(random_subset) \ Range(query_idx) :
              \A k \in 1 .. Len(query_idx) :
                  ScoreOfRow(r) <= ScoreOfRow(query_idx[k])

\* C6 witness: from a pool larger than the subset a query returned fewer rows than
\* the subset has, the first at a pool index beyond any position inside the subset,
\* leaving a row of the subset that scores strictly less.
C6_Witness ==
    /\ Queried
    /\ Len(X_pool) > SubsetSize
    /\ Len(query_idx) < SubsetSize
    /\ query_idx[1] > SubsetSize
    /\ \E r \in Range(random_subset) \ Range(query_idx) :
          ScoreOfRow(r) < ScoreOfRow(query_idx[1])

\* C7: the initial labelled set is InitialSize distinct training examples, PerClass
\* of each class, and the initial pool is the training set less exactly those.
C7_Balanced ==
    /\ pc \in {"initial_pool", "call"} =>
          /\ Len(initial_idx) = InitialSize
          /\ IsInjective(initial_idx)
          /\ X_initial = initial_idx
          /\ Len(y_initial) = InitialSize
          /\ \A k \in 1 .. InitialSize : y_initial[k] = y_train[initial_idx[k]]
          /\ \A c \in Classes :
                Cardinality({k \in 1 .. InitialSize : y_initial[k].cls = c}) = PerClass
    /\ pc = "call" =>
          /\ Len(X_pool) = NumTrain - InitialSize
          /\ IsInjective(X_pool)
          /\ Range(X_pool) = AllExamples \ Range(initial_idx)

\* C7 witness: both cells ran, the draw being neither ascending nor the lowest.
C7_Witness ==
    /\ pc = "call"
    /\ initial_idx[1] > initial_idx[2]
    /\ Len(X_pool) = NumTrain - InitialSize
    /\ X_pool[1] = 1

\* C8: X_pool and y_pool always have the same length and the same example at every
\* position, as have the learner's instances and labels; the rows a teach adds are
\* the instances the query selected with their own labels, and the rows then
\* deleted from the pool are those rows.
C8_Aligned ==
    /\ Len(X_pool) = Len(y_pool)
    /\ \A p \in 1 .. Len(X_pool) : y_pool[p] = y_train[X_pool[p]]
    /\ Len(learner.X_training) = Len(learner.y_training)
    /\ \A p \in 1 .. Len(learner.X_training) :
          learner.y_training[p] = y_train[learner.X_training[p]]
    /\ pc = "delete" =>
          /\ Taught(learner.X_training) = Take(X_pool, query_idx)
          /\ Taught(learner.y_training) = Take(y_pool, query_idx)
    /\ pc = "score" =>
          /\ Range(Taught(learner.X_training)) \cap Range(X_pool) = {}
          /\ Range(Taught(learner.X_training)) \cup Range(X_pool)
                = AllExamples \ Range(SubSeq(learner.X_training, 1,
                                  Len(learner.X_training) - Len(query_idx)))

\* C8 witness: a second round deleted the rows it taught, which were not the
\* leading rows of the pool.
C8_Witness ==
    /\ pc = "score"
    /\ index = 1
    /\ query_idx # <<>>
    /\ query_idx # Positions(Len(query_idx))
    /\ Len(X_pool) = Len(y_pool)

====
